---- MODULE Spec2Model ----
(***************************************************************************)
(* A model of ts-rustools: the tagged-union base class Enum, Optional<T>   *)
(* (Some / None) and Result<T,E> (Ok / Err), with the intoResult adapter.  *)
(*                                                                         *)
(* Objects live in a heap (a sequence; an object's reference is its index) *)
(* because Optional has in-place mutators (insert, take, replace) and      *)
(* several methods return `this` or their argument, so that object         *)
(* identity is observable.  The caller's variables are the sequence `hold` *)
(* of references.  One action models one call made by the caller; `last`   *)
(* records that call (receiver, its value before, arguments, outcome) and  *)
(* `taken` the objects emptied by take() and not filled by insert() since. *)
(***************************************************************************)
EXTENDS Integers, Sequences, FiniteSets, TLC

VARIABLES heap, hold, last, taken

vars == <<heap, hold, last, taken>>

(* Bound on the number of variables the caller holds (and so of objects).  *)
MaxHold == 2

-----------------------------------------------------------------------------
(* JavaScript values.                                                      *)

Null == [t |-> "null"]
Undefined == [t |-> "undefined"]
Bool(b) == [t |-> "boolean", b |-> b]
Num(n) == [t |-> "number", n |-> n]
Str(s) == [t |-> "string", s |-> s]
Arr(elems) == [t |-> "array", elems |-> elems]
ErrorObj(message) == [t |-> "Error", message |-> message]
Ref(ref) == [t |-> "object", ref |-> ref]

(* Array.isArray(v) && v.length == 2, the test unzip makes on the payload. *)
IsArrayOfTwo(v) == v.t = "array" /\ Len(v.elems) = 2

(* String(e) as intoResult applies it to a caught value.                   *)
String(e) ==
  CASE e.t = "string" -> e.s
    [] e.t = "number" -> ToString(e.n)
    [] e.t = "boolean" -> (IF e.b THEN "true" ELSE "false")
    [] e.t = "null" -> "null"
    [] e.t = "undefined" -> "undefined"
    [] e.t = "Error" -> (IF e.message = "" THEN "Error" ELSE "Error: " \o e.message)
    [] OTHER -> "[object Object]"

(* How a call completes: it returns a value or it throws one.              *)
Return(v) == [k |-> "return", v |-> v]
Throw(e) == [k |-> "throw", e |-> e]

-----------------------------------------------------------------------------
(* Inputs the caller supplies.                                             *)

(* payloads *)
Vals == {Num(1), Arr(<<Num(1), Num(2)>>)}
(* error payloads *)
Errs == {Str("e")}
(* messages given to expect *)
Msgs == {"missing"}
(* values a thunk handed to intoResult throws *)
Thrown == {Str("boom"), ErrorObj("boom")}

(* Callbacks of one argument that return a payload: f in map, map_or, ...  *)
Funs == {"id", "inc"}
Apply(f, x) ==
  CASE f = "id" -> x
    [] f = "inc" -> (IF x.t = "number" THEN Num(x.n + 1) ELSE Num(0))
    [] f = "inc_inc" -> (IF x.t = "number" THEN Num(x.n + 2) ELSE Num(1))
(* x => g(f(x)), as a callback *)
Compose(g, f) == IF g = "id" THEN f ELSE IF f = "id" THEN g ELSE "inc_inc"

(* Predicates given to isSomeAnd.                                          *)
Preds == {"isOne"}
Test(p, x) ==
  CASE p = "isOne" -> x = Num(1)

(* A thunk either returns a value or throws one.                           *)
Returning(v) == [does |-> "return", v |-> v]
Throwing(e) == [does |-> "throw", v |-> e]
Invoke(thunk) == IF thunk.does = "throw" THEN Throw(thunk.v) ELSE Return(thunk.v)

-----------------------------------------------------------------------------
(* Enum: the constructor copies the pair it is given into a fresh array.   *)

Enum(pair) == [value |-> <<pair[1], pair[2]>>]

(* new Optional(pair) / new Result(pair): allocate an object.              *)
New(H, class, pair) ==
  [heap |-> Append(H, [class |-> class, value |-> Enum(pair).value]),
   ref |-> Len(H) + 1]

Some(H, value) == New(H, "Optional", <<"Some", value>>)
None(H) == New(H, "Optional", <<"None", Null>>)
Ok(H, value) == New(H, "Result", <<"Ok", value>>)
Err(H, err) == New(H, "Result", <<"Err", err>>)

(* The outcome of a method: the heap after it, how it completed, and the   *)
(* callbacks it invoked, in order, by parameter name.                      *)
Outcome(H, ret, calls) == [heap |-> H, ret |-> ret, calls |-> calls]
(* `return <factory call>`: the new object is returned by reference.       *)
Fresh(a, calls) == Outcome(a.heap, Return(Ref(a.ref)), calls)

-----------------------------------------------------------------------------
(* Optional: getters.                                                      *)

isSome(o) == o.value[1] = "Some"
isNone(o) == o.value[1] = "None"

payload(o) == o.value[2]

-----------------------------------------------------------------------------
(* Optional: methods.  H is the heap, self the receiver's reference.       *)

isSomeAnd(H, self, f) ==
  IF isNone(H[self]) THEN Outcome(H, Return(Bool(FALSE)), <<>>)
  ELSE Outcome(H, Return(Bool(Test(f, payload(H[self])))), <<"f">>)

unwrap(H, self) ==
  IF isNone(H[self])
  THEN Outcome(H, Throw(ErrorObj("Panic: Unwrapped Optional.None variant.")), <<>>)
  ELSE Outcome(H, Return(payload(H[self])), <<>>)

unwrap_or(H, self, fallback) ==
  Outcome(H, Return(IF isSome(H[self]) THEN payload(H[self]) ELSE fallback), <<>>)

unwrap_or_else(H, self, f) ==
  IF isSome(H[self]) THEN Outcome(H, Return(payload(H[self])), <<>>)
  ELSE Outcome(H, Invoke(f), <<"f">>)

(* Mutant: map that rewrites the receiver's payload and returns the        *)
(* receiver instead of a new Optional.                                     *)
map_inPlace(H, self, f) ==
  IF isNone(H[self]) THEN Outcome(H, Return(Ref(self)), <<>>)
  ELSE Outcome([H EXCEPT ![self].value[2] = Apply(f, payload(H[self]))],
               Return(Ref(self)), <<"f">>)

(* Mutant: map that tests the mapped value for truth, so that Some(0)      *)
(* comes out as None.                                                      *)
map_truthy(H, self, f) ==
  IF isNone(H[self]) THEN Fresh(None(H), <<>>)
  ELSE IF Apply(f, payload(H[self])) = Num(0) THEN Fresh(None(H), <<"f">>)
  ELSE Fresh(Some(H, Apply(f, payload(H[self]))), <<"f">>)

map(H, self, f) ==
  IF isNone(H[self]) THEN Fresh(None(H), <<>>)
  ELSE Fresh(Some(H, Apply(f, payload(H[self]))), <<"f">>)

inspect(H, self, f) ==
  Outcome(H, Return(Ref(self)), IF isSome(H[self]) THEN <<"f">> ELSE <<>>)

(* Mutant: expect that fails the way unwrap does, ignoring its message.    *)
expect_asUnwrap(H, self, msg) ==
  IF isNone(H[self])
  THEN Outcome(H, Throw(ErrorObj("Panic: Unwrapped Optional.None variant.")), <<>>)
  ELSE Outcome(H, Return(payload(H[self])), <<>>)

expect(H, self, msg) ==
  IF isNone(H[self]) THEN Outcome(H, Throw(ErrorObj(msg)), <<>>)
  ELSE Outcome(H, Return(payload(H[self])), <<>>)

(* Mutant: map_or_else with the conventional contract: on None it returns  *)
(* what the default thunk gives, unmapped.                                 *)
map_or_else_unmapped(H, self, def, f) ==
  IF isSome(H[self]) THEN map(H, self, f)
  ELSE Fresh(Some(H, Invoke(def).v), <<"def">>)

map_or(H, self, def, f) ==
  IF isSome(H[self]) THEN map(H, self, f)
  ELSE Fresh(Some(H, Apply(f, def)), <<"f">>)

map_or_else(H, self, def, f) ==
  IF isSome(H[self]) THEN map(H, self, f)
  ELSE Fresh(Some(H, Apply(f, Invoke(def).v)), <<"def", "f">>)

ok_or(H, self, err) ==
  IF isSome(H[self]) THEN Fresh(Err(H, err), <<>>)
  ELSE Fresh(Ok(H, payload(H[self])), <<>>)

ok_or_else(H, self, err) ==
  IF isSome(H[self]) THEN Fresh(Err(H, Invoke(err).v), <<"err">>)
  ELSE Fresh(Ok(H, payload(H[self])), <<>>)

and(H, self, optb) ==
  IF isSome(H[self]) THEN Outcome(H, Return(Ref(optb)), <<>>)
  ELSE Outcome(H, Return(Ref(self)), <<>>)

(* A callback that returns an Optional builds it with Some or None.        *)
OptFuns == {"wrap", "onlyOne"}
ApplyOpt(H, f, x) ==
  CASE f = "wrap" -> Some(H, x)
    [] f = "onlyOne" -> (IF x = Num(1) THEN Some(H, Num(2)) ELSE None(H))
OptThunks == {[mk |-> "Some", v |-> Num(2)], [mk |-> "None", v |-> Null]}
InvokeOpt(H, f) == IF f.mk = "Some" THEN Some(H, f.v) ELSE None(H)

(* Mutant: and_then that calls f before looking at the variant.            *)
and_then_eager(H, self, f) ==
  IF isSome(H[self]) THEN Fresh(ApplyOpt(H, f, payload(H[self])), <<"f">>)
  ELSE Fresh(None(H), <<"f">>)

and_then(H, self, f) ==
  IF isSome(H[self]) THEN Fresh(ApplyOpt(H, f, payload(H[self])), <<"f">>)
  ELSE Fresh(None(H), <<>>)

or(H, self, optb) ==
  Outcome(H, Return(Ref(IF isSome(H[self]) THEN self ELSE optb)), <<>>)

or_else(H, self, f) ==
  IF isSome(H[self]) THEN Outcome(H, Return(Ref(self)), <<>>)
  ELSE Fresh(InvokeOpt(H, f), <<"f">>)

(* Mutant: insert that fills the receiver only when it is empty.           *)
insert_ifNone(H, self, value) ==
  IF isNone(H[self])
  THEN Outcome([H EXCEPT ![self].value = <<"Some", value>>], Return(Ref(self)), <<>>)
  ELSE Outcome(H, Return(Ref(self)), <<>>)

insert(H, self, value) ==
  Outcome([H EXCEPT ![self].value = <<"Some", value>>], Return(Ref(self)), <<>>)

(* Mutant: take that hands the payload out without emptying the receiver. *)
take_keepsReceiver(H, self) ==
  IF isSome(H[self]) THEN Fresh(Some(H, payload(H[self])), <<>>)
  ELSE Fresh(None(H), <<>>)

(* Mutant: take that misspells the discriminant it leaves behind.          *)
take_typoTag(H, self) ==
  IF isSome(H[self])
  THEN LET value == payload(H[self])
           H1 == [H EXCEPT ![self].value = <<"none", Null>>]
       IN Fresh(Some(H1, value), <<>>)
  ELSE Fresh(None(H), <<>>)

(* Mutant: take that flips the discriminant and leaves the payload behind. *)
take_keepsPayload(H, self) ==
  IF isSome(H[self])
  THEN LET value == payload(H[self])
           H1 == [H EXCEPT ![self].value[1] = "None"]
       IN Fresh(Some(H1, value), <<>>)
  ELSE Fresh(None(H), <<>>)

take(H, self) ==
  IF isSome(H[self])
  THEN LET value == payload(H[self])
           H1 == [H EXCEPT ![self].value = <<"None", Null>>]
       IN Fresh(Some(H1, value), <<>>)
  ELSE Fresh(None(H), <<>>)

(* Mutant: replace that installs the value whether or not one was present. *)
replace_always(H, self, value) ==
  IF isSome(H[self])
  THEN LET old == payload(H[self])
           H1 == [H EXCEPT ![self].value[2] = value]
       IN Fresh(Some(H1, old), <<>>)
  ELSE Fresh(None([H EXCEPT ![self].value = <<"Some", value>>]), <<>>)

replace(H, self, value) ==
  IF isSome(H[self])
  THEN LET old == payload(H[self])
           H1 == [H EXCEPT ![self].value[2] = value]
       IN Fresh(Some(H1, old), <<>>)
  ELSE Fresh(None(H), <<>>)

zip(H, self, optb) ==
  IF isSome(H[self]) /\ isSome(H[optb])
  THEN Fresh(Some(H, Arr(<<payload(H[self]), payload(H[optb])>>)), <<>>)
  ELSE Fresh(None(H), <<>>)

(* Mutant: unzip that hands the two elements back in the wrong order.      *)
unzip_swapped(H, self) ==
  LET a == IF IsArrayOfTwo(payload(H[self]))
           THEN Some(H, payload(H[self]).elems[2]) ELSE None(H)
      b == IF IsArrayOfTwo(payload(H[self]))
           THEN Some(a.heap, payload(H[self]).elems[1]) ELSE None(a.heap)
  IN Outcome(b.heap, Return(Arr(<<Ref(a.ref), Ref(b.ref)>>)), <<>>)

unzip(H, self) ==
  LET a == IF IsArrayOfTwo(payload(H[self]))
           THEN Some(H, payload(H[self]).elems[1]) ELSE None(H)
      b == IF IsArrayOfTwo(payload(H[self]))
           THEN Some(a.heap, payload(H[self]).elems[2]) ELSE None(a.heap)
  IN Outcome(b.heap, Return(Arr(<<Ref(a.ref), Ref(b.ref)>>)), <<>>)

(* Enum.match_on, inherited by Optional and Result.                        *)
match_on(H, self, on) ==
  Outcome(H, Return(Undefined), IF H[self].value[1] = on THEN <<"matcher">> ELSE <<>>)

-----------------------------------------------------------------------------
(* Result.                                                                 *)

(* Mutant: ok that moves the payload out of the Result.                    *)
ok_moves(H, self) ==
  IF H[self].value[1] = "Ok"
  THEN Fresh(Some([H EXCEPT ![self].value[2] = Null], H[self].value[2]), <<>>)
  ELSE Fresh(None(H), <<>>)

ok(H, self) ==
  IF H[self].value[1] = "Ok" THEN Fresh(Some(H, H[self].value[2]), <<>>)
  ELSE Fresh(None(H), <<>>)

(* Mutant: intoResult that keeps the caught value as it is.                *)
intoResult_raw(H, f) ==
  LET c == Invoke(f)
  IN IF c.k = "return" THEN Fresh(Ok(H, c.v), <<"f">>)
     ELSE Fresh(Err(H, c.e), <<"f">>)

intoResult(H, f) ==
  LET c == Invoke(f)
  IN IF c.k = "return" THEN Fresh(Ok(H, c.v), <<"f">>)
     ELSE Fresh(Err(H, Str(String(c.e))), <<"f">>)

-----------------------------------------------------------------------------
(* The caller.                                                             *)

Handles == 1..Len(hold)
OptHandles == {h \in Handles : heap[hold[h]].class = "Optional"}
ResHandles == {h \in Handles : heap[hold[h]].class = "Result"}

(* The object references in a returned value.                              *)
RefsIn(ret) ==
  IF ret.k # "return" THEN <<>>
  ELSE IF ret.v.t = "object" THEN <<ret.v.ref>>
  ELSE IF ret.v.t = "array" /\ \A i \in 1..Len(ret.v.elems) : ret.v.elems[i].t = "object"
       THEN [i \in 1..Len(ret.v.elems) |-> ret.v.elems[i].ref]
  ELSE <<>>

NoArgs == [none |-> TRUE]

(* One call: through variable h (0 for a free function), with outcome out. *)
(* The caller either binds the returned objects to new variables (keep) or *)
(* drops the returned value; a newly made object that is dropped is        *)
(* unreachable and leaves the heap.  `got` is what the returned references *)
(* pointed at when the call returned.                                      *)
Do(op, h, args, out, keep) ==
  /\ keep => /\ RefsIn(out.ret) # <<>>
             /\ Len(hold) + Len(RefsIn(out.ret)) <= MaxHold
  /\ heap' = IF keep THEN out.heap ELSE SubSeq(out.heap, 1, Len(heap))
  /\ hold' = IF keep THEN hold \o RefsIn(out.ret) ELSE hold
  /\ last' = [op |-> op, h |-> h,
              self |-> IF h = 0 THEN 0 ELSE hold[h],
              pre |-> IF h = 0 THEN <<"", Undefined>> ELSE heap[hold[h]].value,
              args |-> args, ret |-> out.ret, calls |-> out.calls,
              got |-> [i \in 1..Len(RefsIn(out.ret)) |-> out.heap[RefsIn(out.ret)[i]]],
              kept |-> keep,
              wasTaken |-> h # 0 /\ hold[h] \in taken]
  /\ taken' = IF op = "take" THEN taken \cup {hold[h]}
              ELSE IF op = "insert" THEN taken \ {hold[h]}
              ELSE taken

Init ==
  /\ heap = <<>>
  /\ hold = <<>>
  /\ last = [op |-> "init", h |-> 0, self |-> 0, pre |-> <<"", Undefined>>,
             args |-> NoArgs, ret |-> Return(Undefined), calls |-> <<>>,
             got |-> <<>>, kept |-> FALSE, wasTaken |-> FALSE]
  /\ taken = {}

CallSome(K) == \E keep \in K, value \in Vals :
  Do("Some", 0, [value |-> value], Fresh(Some(heap, value), <<>>), keep)

CallNone(K) == \E keep \in K : Do("None", 0, NoArgs, Fresh(None(heap), <<>>), keep)

CallOk(K) == \E keep \in K, value \in Vals :
  Do("Ok", 0, [value |-> value], Fresh(Ok(heap, value), <<>>), keep)

CallErr(K) == \E keep \in K, err \in Errs :
  Do("Err", 0, [err |-> err], Fresh(Err(heap, err), <<>>), keep)

CallIsSomeAnd(K) == \E keep \in K, h \in OptHandles, f \in Preds :
  Do("isSomeAnd", h, [f |-> f], isSomeAnd(heap, hold[h], f), keep)

CallUnwrap(K) == \E keep \in K, h \in OptHandles :
  Do("unwrap", h, NoArgs, unwrap(heap, hold[h]), keep)

CallUnwrapOr(K) == \E keep \in K, h \in OptHandles, fallback \in Vals :
  Do("unwrap_or", h, [fallback |-> fallback], unwrap_or(heap, hold[h], fallback), keep)

CallUnwrapOrElse(K) == \E keep \in K, h \in OptHandles, v \in Vals :
  Do("unwrap_or_else", h, [f |-> Returning(v)],
     unwrap_or_else(heap, hold[h], Returning(v)), keep)

CallMap(K) == \E keep \in K, h \in OptHandles, f \in Funs :
  Do("map", h, [f |-> f], map(heap, hold[h], f), keep)

CallInspect(K) == \E keep \in K, h \in OptHandles :
  Do("inspect", h, NoArgs, inspect(heap, hold[h], "f"), keep)

CallExpect(K) == \E keep \in K, h \in OptHandles, msg \in Msgs :
  Do("expect", h, [msg |-> msg], expect(heap, hold[h], msg), keep)

CallMapOr(K) == \E keep \in K, h \in OptHandles, def \in Vals, f \in Funs :
  Do("map_or", h, [def |-> def, f |-> f], map_or(heap, hold[h], def, f), keep)

CallMapOrElse(K) == \E keep \in K, h \in OptHandles, def \in Vals, f \in Funs :
  Do("map_or_else", h, [def |-> Returning(def), f |-> f],
     map_or_else(heap, hold[h], Returning(def), f), keep)

CallOkOr(K) == \E keep \in K, h \in OptHandles, err \in Errs :
  Do("ok_or", h, [err |-> err], ok_or(heap, hold[h], err), keep)

CallOkOrElse(K) == \E keep \in K, h \in OptHandles, err \in Errs :
  Do("ok_or_else", h, [err |-> Returning(err)],
     ok_or_else(heap, hold[h], Returning(err)), keep)

CallAnd(K) == \E keep \in K, h \in OptHandles, b \in OptHandles :
  Do("and", h, [optb |-> hold[b]], and(heap, hold[h], hold[b]), keep)

CallAndThen(K) == \E keep \in K, h \in OptHandles, f \in OptFuns :
  Do("and_then", h, [f |-> f], and_then(heap, hold[h], f), keep)

CallOr(K) == \E keep \in K, h \in OptHandles, b \in OptHandles :
  Do("or", h, [optb |-> hold[b]], or(heap, hold[h], hold[b]), keep)

CallOrElse(K) == \E keep \in K, h \in OptHandles, f \in OptThunks :
  Do("or_else", h, [f |-> f], or_else(heap, hold[h], f), keep)

CallInsert(K) == \E keep \in K, h \in OptHandles, value \in Vals :
  Do("insert", h, [value |-> value], insert(heap, hold[h], value), keep)

CallTake(K) == \E keep \in K, h \in OptHandles :
  Do("take", h, NoArgs, take(heap, hold[h]), keep)

CallReplace(K) == \E keep \in K, h \in OptHandles, value \in Vals :
  Do("replace", h, [value |-> value], replace(heap, hold[h], value), keep)

CallZip(K) == \E keep \in K, h \in OptHandles, b \in OptHandles :
  Do("zip", h, [optb |-> hold[b]], zip(heap, hold[h], hold[b]), keep)

CallUnzip(K) == \E keep \in K, h \in OptHandles :
  Do("unzip", h, NoArgs, unzip(heap, hold[h]), keep)

CallMatchOn(K) == \E keep \in K, h \in Handles, on \in {"Some", "Ok"} :
  Do("match_on", h, [on |-> on], match_on(heap, hold[h], on), keep)

CallResultOk(K) == \E keep \in K, h \in ResHandles :
  Do("ok", h, NoArgs, ok(heap, hold[h]), keep)

CallIntoResult(K) == \E keep \in K, f \in {Returning(v) : v \in Vals} \cup {Throwing(e) : e \in Thrown} :
  Do("intoResult", 0, [f |-> f], intoResult(heap, f), keep)

(* Some called with an array that is not a pair.                           *)
Arrays == {Arr(<<Num(1)>>), Arr(<<Num(1), Num(2), Num(1)>>)}
CallSomeArray(K) == \E keep \in K, value \in Arrays :
  Do("Some", 0, [value |-> value], Fresh(Some(heap, value), <<>>), keep)

(* What the caller may do with a returned object: anything, or drop it.    *)
KeepOrDrop == BOOLEAN
Drop == {FALSE}

(* The caller working with Optionals it mutates and combines: the values   *)
(* returned by any of these calls may be kept and used as later receivers. *)
NextMut ==
  \/ CallSome(KeepOrDrop) \/ CallNone(KeepOrDrop)
  \/ CallInsert(KeepOrDrop) \/ CallTake(KeepOrDrop) \/ CallReplace(KeepOrDrop)
  \/ CallAnd(KeepOrDrop) \/ CallOr(KeepOrDrop) \/ CallOrElse(KeepOrDrop) \/ CallInspect(KeepOrDrop)
  \/ CallMap(KeepOrDrop) \/ CallZip(KeepOrDrop)

SpecMut == Init /\ [][NextMut]_vars

(* The same caller, using insert() as a statement: it binds no new         *)
(* variable to the receiver that insert returns.                           *)
NextAlias ==
  \/ CallSome(KeepOrDrop) \/ CallNone(KeepOrDrop)
  \/ CallInsert(Drop) \/ CallTake(KeepOrDrop) \/ CallReplace(KeepOrDrop)
  \/ CallAnd(KeepOrDrop) \/ CallOr(KeepOrDrop) \/ CallOrElse(KeepOrDrop) \/ CallInspect(KeepOrDrop)
  \/ CallMap(KeepOrDrop) \/ CallZip(KeepOrDrop)

SpecAlias == Init /\ [][NextAlias]_vars

(* The caller zipping Optionals and unzipping them, the results of zip     *)
(* among them.                                                             *)
NextZip ==
  \/ CallSome(KeepOrDrop) \/ CallSomeArray(KeepOrDrop) \/ CallNone(KeepOrDrop)
  \/ CallTake(Drop)
  \/ CallZip(KeepOrDrop) \/ CallUnzip(KeepOrDrop)

SpecZip == Init /\ [][NextZip]_vars

(* The caller converting between Optional and Result.                      *)
NextConv ==
  \/ CallSome(KeepOrDrop) \/ CallNone(KeepOrDrop) \/ CallOk(KeepOrDrop) \/ CallErr(KeepOrDrop)
  \/ CallTake(KeepOrDrop) \/ CallInsert(KeepOrDrop)
  \/ CallOkOr(KeepOrDrop) \/ CallOkOrElse(KeepOrDrop)
  \/ CallResultOk(KeepOrDrop) \/ CallIntoResult(KeepOrDrop) \/ CallMatchOn(KeepOrDrop)

SpecConv == Init /\ [][NextConv]_vars

(* Every operation of Optional, called on receivers the caller made with   *)
(* Some or None and changes with insert, take and replace; it drops what   *)
(* the other calls return.                                                 *)
NextOpt ==
  \/ CallSome(KeepOrDrop) \/ CallNone(KeepOrDrop)
  \/ CallIsSomeAnd(Drop) \/ CallUnwrap(Drop) \/ CallUnwrapOr(Drop)
  \/ CallUnwrapOrElse(Drop)
  \/ CallMap(Drop) \/ CallInspect(Drop) \/ CallExpect(Drop)
  \/ CallMapOr(Drop) \/ CallMapOrElse(Drop)
  \/ CallOkOr(Drop) \/ CallOkOrElse(Drop)
  \/ CallAnd(Drop) \/ CallAndThen(Drop) \/ CallOr(Drop) \/ CallOrElse(Drop)
  \/ CallInsert(Drop) \/ CallTake(Drop) \/ CallReplace(Drop)
  \/ CallZip(Drop) \/ CallUnzip(Drop) \/ CallMatchOn(Drop)

SpecOpt == Init /\ [][NextOpt]_vars

-----------------------------------------------------------------------------
TypeOK ==
  /\ Len(heap) <= Len(hold) /\ Len(hold) <= MaxHold
  /\ \A h \in Handles : hold[h] \in 1..Len(heap)


-----------------------------------------------------------------------------
(* What the last call returned, for stating the claims.                    *)

Returned == last.ret.k = "return"
(* the last call returned one object of the given class and value *)
ReturnedObject(class, value) ==
  /\ Returned /\ last.ret.v.t = "object"
  /\ last.got[1].class = class
  /\ last.got[1].value = value
(* the receiver of the last call, as it is now *)
Receiver == heap[last.self]

(* C1: Some(v).ok_or(e) is a Result Ok(v) and None().ok_or(e) is a Result  *)
(* Err(e), for every payload v and error e.                                *)
C1_OkOrMapsPresenceToSuccess ==
  last.op = "ok_or" =>
    /\ last.pre[1] = "Some" => ReturnedObject("Result", <<"Ok", last.pre[2]>>)
    /\ last.pre[1] = "None" => ReturnedObject("Result", <<"Err", last.args.err>>)

(* C2: ok_or_else(err_thunk) on Some(v) returns Ok(v) without invoking     *)
(* err_thunk; on None it returns Err(err_thunk()) and invokes err_thunk    *)
(* exactly once.                                                           *)
C2_OkOrElseIsLazy ==
  last.op = "ok_or_else" =>
    /\ last.pre[1] = "Some" =>
         /\ ReturnedObject("Result", <<"Ok", last.pre[2]>>)
         /\ last.calls = <<>>
    /\ last.pre[1] = "None" =>
         /\ ReturnedObject("Result", <<"Err", last.args.err.v>>)
         /\ last.calls = <<"err">>

(* The calls that change their receiver.                                   *)
Mutators == {"insert", "take", "replace"}

(* C3: take() on Some(v) returns Some(v) and leaves the receiver None;     *)
(* take() on None returns None and leaves the receiver None; so once       *)
(* take() was called on an object, the object stays None and every later   *)
(* take() on it returns None, until an insert.                             *)
C3_TakeEmptiesUntilInsert ==
  /\ last.op = "take" /\ last.pre[1] = "Some" =>
       /\ ReturnedObject("Optional", <<"Some", last.pre[2]>>)
       /\ isNone(Receiver) /\ ~isSome(Receiver)
  /\ last.op = "take" /\ last.pre[1] = "None" =>
       /\ Returned /\ last.ret.v.t = "object" /\ isNone(last.got[1])
       /\ isNone(Receiver) /\ ~isSome(Receiver)
  /\ last.op = "take" /\ last.wasTaken =>
       /\ last.pre[1] = "None"
       /\ Returned /\ last.ret.v.t = "object" /\ isNone(last.got[1])
  /\ \A o \in taken : isNone(heap[o]) /\ ~isSome(heap[o])

(* a second take() on the same object, with a call in between *)
C3_Witness ==
  /\ last.op = "take" /\ last.wasTaken
  /\ isNone(Receiver) /\ isNone(last.got[1])

C5_InsertForcesSome ==
  last.op = "insert" =>
    /\ Receiver.value = <<"Some", last.args.value>>
    /\ isSome(Receiver) /\ ~isNone(Receiver)
    /\ last.ret = Return(Ref(last.self))
    /\ unwrap(heap, last.ret.v.ref).ret = Return(last.args.value)

(* insert on an object that take() had emptied *)
C5_Witness ==
  /\ last.op = "insert" /\ last.wasTaken /\ last.pre[1] = "None"
  /\ isSome(Receiver)

(* C6: every Optional the caller can reach has exactly one variant active  *)
(* (isSome and isNone never agree), and insert, take and replace run no    *)
(* caller code between their first and last step, so that the caller sees  *)
(* the receiver only before and after the call.                            *)
C6_ExactlyOneVariant ==
  /\ \A o \in 1..Len(heap) :
       heap[o].class = "Optional" => (isSome(heap[o]) /= isNone(heap[o]))
  /\ \A i \in 1..Len(last.got) :
       last.got[i].class = "Optional" => (isSome(last.got[i]) /= isNone(last.got[i]))
  /\ last.op \in Mutators =>
       /\ last.calls = <<>>
       /\ Returned
       /\ isSome(Receiver) /= isNone(Receiver)

(* a call that changed the active variant of its receiver *)
C6_Witness ==
  /\ last.op \in Mutators
  /\ last.pre[1] = "Some" /\ isNone(Receiver)

(* C7 as stated: a mutating call made through one variable leaves what     *)
(* every other variable of the caller shows (variant and payload) as it    *)
(* was, also when that variable holds the receiver, the argument or the    *)
(* result of an earlier and, or, or_else or inspect call.                  *)
C7_NoSharedStateBetweenValues ==
  [][last'.op \in Mutators =>
       \A k \in Handles \ {last'.h} :
         heap'[hold[k]].value = heap[hold[k]].value]_vars

(* C7, amended: a mutating call changes only the object it is called on,   *)
(* so every variable that refers to another object shows the same variant  *)
(* and payload before and after; map, zip, take and replace return an      *)
(* object that did not exist before the call, and the other calls change   *)
(* no object at all.                                                       *)
C7_MutatorsChangeOnlyTheirObject ==
  [][/\ last'.op \in Mutators =>
          /\ \A o \in 1..Len(heap) : o # last'.self => heap'[o] = heap[o]
          /\ \A k \in Handles :
               hold[k] # hold[last'.h] => heap'[hold[k]].value = heap[hold[k]].value
     /\ last'.op \in {"map", "zip", "take", "replace"} =>
          /\ last'.ret.k = "return" /\ last'.ret.v.t = "object"
          /\ last'.ret.v.ref > Len(heap)
     /\ last'.op \notin Mutators =>
          \A o \in 1..Len(heap) : heap'[o] = heap[o]]_vars

(* a mutating call took effect while the caller held another Optional *)
C7_Witness ==
  /\ last.op \in Mutators /\ Receiver.value # last.pre
  /\ \E k \in Handles : hold[k] # last.self /\ isSome(heap[hold[k]])

(* C8: unwrap() and expect(message) return the payload on Some(v); on None *)
(* they throw, expect an error with exactly the caller's message; either   *)
(* way the receiver keeps its variant and payload; and no other operation  *)
(* of Optional throws on a None receiver.                                  *)
C8_OnlyUnwrapAndExpectThrow ==
  /\ last.op \in {"unwrap", "expect"} =>
       /\ last.pre[1] = "Some" => last.ret = Return(last.pre[2])
       /\ last.pre[1] = "None" => last.ret.k = "throw" /\ last.ret.e.t = "Error"
       /\ Receiver.value = last.pre
  /\ last.op = "expect" /\ last.pre[1] = "None" =>
       last.ret = Throw(ErrorObj(last.args.msg))
  /\ last.h # 0 /\ last.pre[1] = "None" /\ last.op \notin {"unwrap", "expect"} =>
       Returned

C8_Witness ==
  /\ last.op = "expect" /\ last.pre[1] = "None"
  /\ last.ret.k = "throw" /\ isNone(Receiver)

(* C9: intoResult(thunk) invokes thunk exactly once and returns normally:  *)
(* Ok(x) if thunk returned x, Err(s) if thunk threw d, s being the string  *)
(* for d ("boom" for the string "boom", "Error: boom" for an Error made    *)
(* with the message "boom").                                               *)
C9_IntoResultCatches ==
  last.op = "intoResult" =>
    /\ last.calls = <<"f">>
    /\ Returned
    /\ last.args.f.does = "return" =>
         ReturnedObject("Result", <<"Ok", last.args.f.v>>)
    /\ last.args.f.does = "throw" =>
         /\ last.ret.v.t = "object" /\ last.got[1].class = "Result"
         /\ last.got[1].value[1] = "Err"
         /\ last.got[1].value[2].t = "string"
    /\ last.args.f = Throwing(Str("boom")) =>
         ReturnedObject("Result", <<"Err", Str("boom")>>)
    /\ last.args.f = Throwing(ErrorObj("boom")) =>
         ReturnedObject("Result", <<"Err", Str("Error: boom")>>)

C9_Witness ==
  /\ last.op = "intoResult" /\ last.args.f.does = "throw"
  /\ Returned /\ last.got[1].value[1] = "Err"

(* C10: Ok(v).ok() is Some(v) and Err(e).ok() is None; and no call changes *)
(* a Result: its variant and payload stay what Ok or Err set.              *)
C10_OkDropsErrorResultImmutable ==
  /\ [](last.op = "ok" =>
          /\ last.pre[1] = "Ok" => ReturnedObject("Optional", <<"Some", last.pre[2]>>)
          /\ last.pre[1] = "Err" =>
               /\ Returned /\ last.ret.v.t = "object"
               /\ last.got[1].class = "Optional"
               /\ isNone(last.got[1]) /\ ~isSome(last.got[1])
          /\ Receiver.value = last.pre)
  /\ [][\A o \in 1..Len(heap) :
          heap[o].class = "Result" => heap'[o] = heap[o]]_vars

C10_Witness ==
  /\ last.op = "ok" /\ last.pre[1] = "Err"
  /\ isNone(last.got[1]) /\ Receiver.value[1] = "Err"


ReturnedPair(a, b) ==
  /\ Returned /\ last.ret.v.t = "array" /\ Len(last.ret.v.elems) = 2
  /\ Len(last.got) = 2
  /\ last.got[1].class = "Optional" /\ last.got[1].value = a
  /\ last.got[2].class = "Optional" /\ last.got[2].value = b

(* unzip() of what x.zip(y) returns, x and y being objects of the heap *)
UnzipOfZip(x, y) ==
  LET z == zip(heap, x, y)
      u == unzip(z.heap, z.ret.v.ref)
  IN <<u.heap[u.ret.v.elems[1].ref].value, u.heap[u.ret.v.elems[2].ref].value>>

(* C12: Some(a).zip(Some(b)) is Some([a,b]) and its unzip() is             *)
(* (Some(a), Some(b)); if either operand of zip is None the zip is None    *)
(* and its unzip() is (None, None); unzip() of a Some whose payload is not *)
(* a 2-element sequence is (None, None).                                   *)
C12_ZipUnzipInverse ==
  /\ last.op = "zip" =>
       IF last.pre[1] = "Some" /\ isSome(heap[last.args.optb])
       THEN ReturnedObject("Optional",
              <<"Some", Arr(<<last.pre[2], payload(heap[last.args.optb])>>)>>)
       ELSE /\ Returned /\ last.ret.v.t = "object"
            /\ isNone(last.got[1]) /\ ~isSome(last.got[1])
  /\ last.op = "unzip" /\ last.pre[1] = "Some" =>
       IF last.pre[2].t = "array" /\ Len(last.pre[2].elems) = 2
       THEN ReturnedPair(<<"Some", last.pre[2].elems[1]>>, <<"Some", last.pre[2].elems[2]>>)
       ELSE ReturnedPair(<<"None", Null>>, <<"None", Null>>)
  /\ \A x, y \in 1..Len(heap) :
       heap[x].class = "Optional" /\ heap[y].class = "Optional" =>
         UnzipOfZip(x, y) =
           IF isSome(heap[x]) /\ isSome(heap[y])
           THEN <<(<<"Some", payload(heap[x])>>), (<<"Some", payload(heap[y])>>)>>
           ELSE <<(<<"None", Null>>), (<<"None", Null>>)>>

(* unzip() called on the Some that zip returned *)
C12_Witness ==
  /\ last.op = "unzip" /\ last.pre[1] = "Some"
  /\ \E k \in Handles : hold[k] # last.self /\ isSome(heap[hold[k]])
       /\ last.pre[2] = Arr(<<payload(heap[hold[k]]), payload(heap[hold[k]])>>)
  /\ last.got[1].value = <<"Some", last.pre[2].elems[1]>>


(* what a callback that builds an Optional returns, as a value *)
BuiltBy(a) == a.heap[a.ref].value

(* C13: and_then(f) returns f(v), f invoked exactly once, on Some(v), and  *)
(* None, f not invoked, on None; or_else(f) and unwrap_or_else(thunk)      *)
(* return the receiver, respectively its payload, without invoking the     *)
(* callback on Some, and invoke it exactly once and return its result on   *)
(* None.                                                                   *)
C13_ChainingShortCircuits ==
  /\ last.op = "and_then" =>
       IF last.pre[1] = "Some"
       THEN /\ last.calls = <<"f">>
            /\ ReturnedObject("Optional", BuiltBy(ApplyOpt(<<>>, last.args.f, last.pre[2])))
       ELSE /\ last.calls = <<>>
            /\ Returned /\ last.ret.v.t = "object"
            /\ isNone(last.got[1]) /\ ~isSome(last.got[1])
  /\ last.op = "or_else" =>
       IF last.pre[1] = "Some"
       THEN /\ last.calls = <<>>
            /\ last.ret = Return(Ref(last.self))
            /\ Receiver.value = last.pre
       ELSE /\ last.calls = <<"f">>
            /\ ReturnedObject("Optional", BuiltBy(InvokeOpt(<<>>, last.args.f)))
  /\ last.op = "unwrap_or_else" =>
       IF last.pre[1] = "Some"
       THEN last.calls = <<>> /\ last.ret = Return(last.pre[2])
       ELSE last.calls = <<"f">> /\ last.ret = Return(last.args.f.v)

(* and_then on None: nothing to hand to f *)
C13_Witness ==
  /\ last.op = "and_then" /\ last.pre[1] = "None"
  /\ last.calls = <<>> /\ isNone(last.got[1])


(* the value of the Optional a method returned *)
ValueOf(out) == out.heap[out.ret.v.ref].value
(* o.map(f).map(g), as a value *)
MapMap(o, f, g) ==
  LET m == map(heap, o, f) IN ValueOf(map(m.heap, m.ret.v.ref, g))

(* C14: Some(v).map(f) is a new Some(f(v)) and None().map(f) is a None,    *)
(* with f not invoked; the receiver is unchanged; Some(v).map(id) equals   *)
(* Some(v) and Some(v).map(f).map(g) equals Some(v).map(x => g(f(x))).     *)
C14_MapIsAFunctor ==
  /\ last.op = "map" =>
       /\ IF last.pre[1] = "Some"
          THEN /\ ReturnedObject("Optional", <<"Some", Apply(last.args.f, last.pre[2])>>)
               /\ last.calls = <<"f">>
          ELSE /\ Returned /\ last.ret.v.t = "object"
               /\ isNone(last.got[1]) /\ ~isSome(last.got[1])
               /\ last.calls = <<>>
       /\ Receiver.value = last.pre
       /\ last.ret.v.ref # last.self
       /\ last.ret.v.ref = IF last.kept THEN Len(heap) ELSE Len(heap) + 1
       /\ last.kept => \A k \in 1..(Len(hold) - 1) : hold[k] # last.ret.v.ref
  /\ \A o \in 1..Len(heap) :
       heap[o].class = "Optional" =>
         /\ ValueOf(map(heap, o, "id")) = heap[o].value
         /\ \A f \in Funs, g \in Funs :
              MapMap(o, f, g) = ValueOf(map(heap, o, Compose(g, f)))

(* map(inc) on a Some(2): the caller holds Some(2) still and gets Some(3) *)
C14_Witness ==
  /\ last.op = "map" /\ last.args.f = "inc"
  /\ Receiver.value = <<"Some", Num(2)>>
  /\ last.got[1].value = <<"Some", Num(3)>>


(* the two Optionals o.unzip() returns, as values *)
UnzipOf(o) ==
  LET u == unzip(heap, o)
  IN <<u.heap[u.ret.v.elems[1].ref].value, u.heap[u.ret.v.elems[2].ref].value>>

NonePair == <<(<<"None", Null>>), (<<"None", Null>>)>>

(* C15: every Optional whose discriminant is None has the payload null,    *)
(* after take and after replace on None included; so unzip() on a None     *)
(* receiver returns (None, None), also on one that held a 2-element        *)
(* payload before take().                                                  *)
C15_NoneHasNullPayload ==
  /\ \A o \in 1..Len(heap) :
       heap[o].class = "Optional" /\ isNone(heap[o]) =>
         /\ payload(heap[o]) = Null
         /\ UnzipOf(o) = NonePair
  /\ last.op = "take" => isNone(Receiver) /\ payload(Receiver) = Null
  /\ last.op = "replace" /\ last.pre[1] = "None" => Receiver.value = <<"None", Null>>
  /\ last.op = "unzip" /\ last.pre[1] = "None" =>
       /\ last.pre[2] = Null
       /\ ReturnedPair(<<"None", Null>>, <<"None", Null>>)

(* take() has just emptied a Some([1,2]); unzip() on it gives (None, None) *)
C15_Witness ==
  /\ last.op = "take" /\ last.pre = <<"Some", Arr(<<Num(1), Num(2)>>)>>
  /\ isNone(Receiver)
  /\ UnzipOf(last.self) = NonePair

(* unzip() called on a receiver that take() emptied *)
C15_WitnessUnzipAfterTake ==
  /\ last.op = "unzip" /\ last.wasTaken /\ last.pre[1] = "None"
  /\ ReturnedPair(<<"None", Null>>, <<"None", Null>>)

====
